---- MODULE Spec2Model ----
(***************************************************************************)
(* A model of sticky_notes.py: the animation drivers of StickyNote         *)
(* (fade_in, animate_spiral, animate_to_position), fade_in_widget, and the *)
(* controller StickyWallApp (spawning, close handling, merge scheduling,   *)
(* convergence and the final heart message).                               *)
(*                                                                         *)
(* The program is single threaded: every handler runs to completion on the *)
(* Tk event loop, so each action below is one whole callback, including    *)
(* the calls it makes.  Timer delays are not measured: a pending callback  *)
(* may fire at any later moment, which covers every delay of the event     *)
(* loop.  What tkinter does with the `after` callbacks of a destroyed      *)
(* widget is part of the model: Misc.destroy deletes the Tcl commands the  *)
(* widget registered, so a tick that is still pending when its widget is   *)
(* destroyed never calls back into Python (Tcl reports "invalid command    *)
(* name" instead).                                                         *)
(*                                                                         *)
(* Spec follows the application as main() runs it.  The other              *)
(* specifications follow one part on its own: DriverSpec one driver call,  *)
(* NoteSpec one StickyNote with its close callback, LayoutSpec one call of *)
(* generate_positions, PlaceSpec the position of one note, EaseSpec one    *)
(* call of ease_in_out_quad, CountdownSpec the merge countdown.            *)
(***************************************************************************)
EXTENDS Integers, Sequences, FiniteSets, TLC

\* ------------------------------------------------------------------ bounds
\* The largest number of notes requested.
MaxNotes == 2

\* ------------------------------------------------------- program constants
FADE_INTERVAL_MS == 20
FADE_IN_DURATION_MS == 500
MOVE_DURATION_MS == 500
HEART_FADE_MS == 500
FADE_OUT_STEPS == 10

Notes == 1..MaxNotes
\* --interval values handed to the constructor, which keeps max(0, interval_ms)
Intervals == {-50, 0, 150}

Max(a, b) == IF a >= b THEN a ELSE b

\* ---------------------------------------------------------- driver kernel

\* steps = max(1, duration_ms // FADE_INTERVAL_MS)
Steps(duration_ms) == Max(1, duration_ms \div FADE_INTERVAL_MS)

\* The step counts n up to 200 for which the IEEE-754 double product
\* n * (1.0 / n) is below 1.0 (it is 0.9999999999999999); for every other
\* n up to 200 the product is exactly 1.0.
InexactReciprocal == {49, 98, 103, 107, 161, 187, 196, 197}

\* fade_in / fade_in_widget: new_alpha = min(1.0, (index + 1) * increment)
\* with increment = 1.0 / steps in double arithmetic; the test the loop ends
\* on is new_alpha >= 1.0.
FadeReachesOne(index, steps) ==
    \/ index + 1 > steps
    \/ index + 1 = steps /\ steps \notin InexactReciprocal

\* An alpha is a double.  It is held as <<num, den, ulps>>: num / den is the
\* value the expression that computed it has over the reals, and ulps is how
\* many doubles above (below, if negative) the double nearest to num / den
\* the computed double lies.  The fractions written differ by far more than
\* the rounding, so two alphas compare as their fractions do, and as their
\* ulps where the fractions are equal.
\*
\* The rounding of (index + 1) * (1.0 / steps), by index + 1, for the step
\* counts followed (1, 3, 25 and 49): exact at 1, 3 and 25.
FadeUlps49 ==
    <<0, 0, 0, 0, -1, 0, 0, 0, -1, -1, -1, 0, -1, 0, -1, 0, 0, -1, 0, -1,
      0, -1, -1, 0, 0, -1, 0, 0, 0, -1, -1, 0, 0, 0, -1, -1, 0, 0, -1, -1,
      -1, 0, 0, -1, -1, -1, 0, 0, -1>>
FadeUlps(index, steps) == IF steps = 49 THEN FadeUlps49[index + 1] ELSE 0

\* The alpha written by a fade step: 1.0 once the product reaches 1.0, else
\* the double (index + 1) * (1.0 / steps).
FadeAlpha(index, steps) ==
    IF FadeReachesOne(index, steps) THEN <<1, 1, 0>>
    ELSE <<index + 1, steps, FadeUlps(index, steps)>>

\* animate_spiral / animate_to_position: progress = (index + 1) / steps and
\* the test the loop ends on is progress >= 1.0 (an exact quotient at 1).
ProgressDone(index, steps) == index + 1 >= steps

\* The two branches of ease_in_out_quad at t = k / steps, as fractions
\* <<num, den>>: 2 * t * t and 1 - (-2 * t + 2) ** 2 / 2.
EaseLower(k, steps) == <<2 * k * k, steps * steps>>
EaseUpper(k, steps) ==
    <<steps * steps - 2 * (steps - k) * (steps - k), steps * steps>>

\* EaseInOutQuad with the upper branch not halved: 1 - (-2 * t + 2) ** 2
EaseInOutQuadUnhalved(k, steps) ==
    IF 2 * k < steps
    THEN EaseLower(k, steps)
    ELSE <<steps * steps - 4 * (steps - k) * (steps - k), steps * steps>>

\* ease_in_out_quad(k / steps) as the fraction <<num, den>>: the lower
\* branch for t < 0.5, the upper one from 0.5 on.
EaseInOutQuad(k, steps) ==
    IF 2 * k < steps THEN EaseLower(k, steps) ELSE EaseUpper(k, steps)

\* The rounding of 1.0 - ease_in_out_quad((index + 1) / steps), by
\* index + 1, for the step counts followed (1, 3, 25 and 49): exact at 1.
SpiralUlps3 == <<0, 4, 0>>
SpiralUlps25 ==
    <<0, 0, 0, 0, -1, 0, 0, 0, 0, -1, 0, 0, 0, 0, 1, 0, -5, 2, -2, -3, 3,
      14, 19, -45, 0>>
SpiralUlps49 ==
    <<0, 0, 0, 0, 0, 0, 0, 0, -1, 0, 0, 0, 0, 0, 0, 0, 0, 0, 1, 0, 0, -1,
      0, 0, 0, 0, 1, 1, 1, -1, 0, 5, 3, 0, -1, -1, 4, 5, 3, -4, 3, 7, 4,
      11, 3, 36, 3, 259, 0>>
SpiralUlps(index, steps) ==
    IF steps = 3 THEN SpiralUlps3[index + 1]
    ELSE IF steps = 25 THEN SpiralUlps25[index + 1]
    ELSE IF steps = 49 THEN SpiralUlps49[index + 1]
    ELSE 0

\* animate_spiral: new_alpha = max(0.0, 1.0 - eased_progress).
SpiralAlpha(index, steps) ==
    LET e == EaseInOutQuad(index + 1, steps)
    IN  <<Max(0, e[2] - e[1]), e[2], SpiralUlps(index, steps)>>

\* NextIndex passing over an index
NextIndexSkipping(index) == index + 2

\* The index of the tick a step schedules: self.after(FADE_INTERVAL_MS,
\* lambda: step(index + 1)), and step(count + 1) in the heart's fade-out.
NextIndex(index) == index + 1

\* Step counts of the application's three driver calls:
\* self.fade_in(FADE_IN_DURATION_MS, ...) in StickyNote.__init__,
\* note.animate_to_position(..., 500, ...) in _start_merge_animation and
\* fade_in_widget(heart_window, 500, ...) in _show_merged_heart_note.
NoteFadeSteps == Steps(FADE_IN_DURATION_MS)
MoveSteps == Steps(MOVE_DURATION_MS)
HeartFadeSteps == Steps(HEART_FADE_MS)

\* ------------------------------------------------------------------ state
VARIABLES
    total,              \* StickyWallApp._total
    interval_ms,        \* StickyWallApp.interval_ms
    index,              \* StickyWallApp._index
    creation_cancelled, \* StickyWallApp._creation_cancelled
    merge_scheduled,    \* StickyWallApp._merge_scheduled
    heart_shown,        \* StickyWallApp._heart_shown
    sticky_notes,       \* StickyWallApp.sticky_notes, a list of note ids
    exists,             \* note -> winfo_exists()
    on_close,           \* note -> (StickyNote._on_close is not None)
    alpha,              \* note -> the note's -alpha attribute, a double
    fadeTick,           \* note -> index of its pending fade_in tick, 0: none
    fadeWrites,         \* note -> alpha writes made by its fade_in
    fadeDone,           \* note -> calls of its fade_in completion
    moveTick,           \* note -> index of its pending move tick, 0: none
    moveWrites,         \* note -> steps of its move that wrote a position
    moveDone,           \* note -> calls of on_anim_complete by its move
    closedIn,           \* note -> the phase in which the user closed it
    liftDead,           \* note -> calls of _lift_with_shadow made on the note
                        \* after it was destroyed
    createPending,      \* pending _create_single_note: none / after / after_idle
    postSpawnPending,   \* pending root.after(500, _schedule_merge)
    startMergePending,  \* pending root.after(250, _start_merge_animation)
    showHeartPending,   \* pending root.after(500, _show_merged_heart_note)
    mergeSchedules,     \* times _start_merge_animation was scheduled
    mergeRuns,          \* times _start_merge_animation ran
    snapshot,           \* active_notes of _start_merge_animation
    remaining,          \* remaining_animations of _start_merge_animation
    heartPositions,     \* calls of generate_heart_positions
    heartWindows,       \* heart windows created
    heartExists,        \* heart_window.winfo_exists()
    heartAlpha,         \* heart window's -alpha attribute, a double
    heartFadeTick,      \* index of the pending fade_in_widget tick, 0: none
    heartFadeWrites,    \* alpha writes made by fade_in_widget
    heartFadeDone,      \* calls of close_and_quit
    heartHoldPending,   \* pending heart_window.after(1500, fade_out_and_destroy)
    heartOutTick,       \* count of the pending fade-out step, 0: none
    heartOutWrites,     \* alpha writes made by the fade-out
    quitCount,          \* calls of root.quit()
    \* one driver call followed on its own (DriverSpec)
    dVariant,           \* which driver: fade_in, animate_spiral, ...
    dDuration,          \* its duration_ms argument
    dStarted,           \* the driver function has been called
    dExists,            \* the target's winfo_exists()
    dTick,              \* index of the pending step(index), 0: none
    dWrites,            \* steps that wrote to the target
    dDone,              \* calls of on_complete
    dAlpha,             \* the target's -alpha attribute, a double
    dKilledAt,          \* steps written when the target was destroyed from
                        \* outside while a tick was pending, -1: never
    \* one StickyNote on its own, with no controller (NoteSpec)
    oneExists,          \* winfo_exists()
    oneAlpha,           \* its -alpha attribute, a double
    oneFadeTick,        \* index of its pending fade_in tick, 0: none
    oneFadeWrites,      \* alpha writes made by its fade_in
    oneSpiralDuration,  \* duration_ms of the animate_spiral call
    oneSpiralStarted,   \* animate_spiral has been called
    oneSpiralTick,      \* index of its pending animate_spiral tick, 0: none
    oneSpiralWrites,    \* alpha writes made by its animate_spiral
    oneSpiralDone,      \* calls of animate_spiral's on_complete
    oneOnClose,         \* StickyNote._on_close is not None
    oneCloseCalls,      \* calls of the note's on_close callback
    oneDestroys,        \* calls of destroy() on the note
    \* one call of generate_positions (LayoutSpec)
    layoutArgs,         \* its arguments
    layoutCalled,       \* the call has returned
    layoutResult,       \* the list it returned, of <<x, y>>
    layoutCell,         \* for each returned position, the loop index i (the
                        \* cell) it was computed from
    \* the position of one StickyNote (PlaceSpec)
    pSize,              \* <<note width, note height, screen width, height>>
    pExists,            \* winfo_exists()
    pPos,               \* <<winfo_x(), winfo_y()>>
    pDragOrigin,        \* StickyNote._drag_origin, <<>> for None
    pDrags,             \* button presses so far
    pMoveStarted,       \* animate_to_position has been called
    pDuration,          \* its duration_ms
    pRotation,          \* its rotation_count, in tenths
    pTarget,            \* its <<target_x, target_y>>
    pStart,             \* its <<start_x, start_y>>
    pTick,              \* index of its pending step(index), 0: none
    pSteps,             \* steps of it that ran on the existing note
    pDone,              \* calls of its on_complete
    pAtComplete,        \* the note's position at each call of on_complete
    pSpiralStarted,     \* animate_spiral has been called
    pSpiralDuration,    \* its duration_ms
    pCenter,            \* its <<center_x, center_y>>
    pSpiralStart,       \* its <<start_x, start_y>>
    pSpiralTick,        \* index of its pending step(index), 0: none
    pSpiralSteps,       \* steps of it that ran on the existing note
    pSpiralDone,        \* calls of its on_complete
    \* one call of ease_in_out_quad (EaseSpec)
    easeArgs,           \* <<k, steps>>: the argument is t = k / steps
    easeCalled,         \* the call has returned
    easeResult,         \* what it returned, <<num, den>>
    \* the countdown of one _start_merge_animation (CountdownSpec)
    cdActive,           \* len(active_notes)
    cdRemaining,        \* remaining_animations
    cdCalls,            \* note -> calls of on_anim_complete made for it
    cdShowPending       \* pending root.after(500, _show_merged_heart_note)

appVars == <<total, interval_ms, index, creation_cancelled, merge_scheduled,
             heart_shown, sticky_notes, createPending, postSpawnPending,
             startMergePending, showHeartPending, mergeSchedules, mergeRuns,
             snapshot, remaining, heartPositions>>
noteVars == <<exists, on_close, alpha, fadeTick, fadeWrites, fadeDone,
              moveTick, moveWrites, moveDone, closedIn, liftDead>>
heartVars == <<heartWindows, heartExists, heartAlpha, heartFadeTick,
               heartFadeWrites, heartFadeDone, heartHoldPending, heartOutTick,
               heartOutWrites, quitCount>>
driverVars == <<dVariant, dDuration, dStarted, dExists, dTick, dWrites,
                dDone, dAlpha, dKilledAt>>
oneVars == <<oneExists, oneAlpha, oneFadeTick, oneFadeWrites,
             oneSpiralDuration, oneSpiralStarted, oneSpiralTick,
             oneSpiralWrites, oneSpiralDone, oneOnClose, oneCloseCalls,
             oneDestroys>>
layoutVars == <<layoutArgs, layoutCalled, layoutResult, layoutCell>>
placeVars == <<pSize, pExists, pPos, pDragOrigin, pDrags, pMoveStarted,
               pDuration, pRotation, pTarget, pStart, pTick, pSteps, pDone,
               pAtComplete, pSpiralStarted, pSpiralDuration, pCenter,
               pSpiralStart, pSpiralTick, pSpiralSteps, pSpiralDone>>
easeVars == <<easeArgs, easeCalled, easeResult>>
countdownVars == <<cdActive, cdRemaining, cdCalls, cdShowPending>>
harnessVars == <<oneVars, layoutVars, placeVars, easeVars, countdownVars>>
vars == <<appVars, noteVars, heartVars, driverVars, harnessVars>>


\* ------------------------------------------------------- controller helpers

\* Remove if the closed note were left in the list
RemoveNothing(list, n) == list

\* list.remove(note) after `if note in self.sticky_notes`
Remove(list, n) == SelectSeq(list, LAMBDA m : m # n)

\* CreationStops without the cancellation flag
CreationStopsAtTotalOnly(cancelled, idx, tot) == idx >= tot

\* _create_single_note's early return
CreationStops(cancelled, idx, tot) == cancelled \/ idx >= tot

\* ScheduleMerge without its one-shot test
ScheduleMergeUnguarded(ms, cc, pend, count) ==
    [ms |-> TRUE, cc |-> TRUE, pend |-> pend + 1, count |-> count + 1]

\* _schedule_merge, on the fields it reads and writes: the one-shot flag, the
\* creation flag, the pending _start_merge_animation timers and their count.
ScheduleMerge(ms, cc, pend, count) ==
    IF ms
    THEN [ms |-> ms, cc |-> cc, pend |-> pend, count |-> count]
    ELSE [ms |-> TRUE, cc |-> TRUE, pend |-> pend + 1, count |-> count + 1]

\* CloseSchedulesMerge with the `not` of `not any(...)` left out
CloseSchedulesMergeInverted(ms, list, ex) ==
    ~ms /\ \E i \in 1..Len(list) : ex[list[i]]

\* _handle_note_close's test, on the list after the removal
CloseSchedulesMerge(ms, list, ex) ==
    ~ms /\ \A i \in 1..Len(list) : ~ex[list[i]]

\* _handle_note_close(note): the removal, then the conditional _schedule_merge
HandleNoteClose(n, list, ex, ms, cc, pend, count) ==
    LET list1 == Remove(list, n)
        r == IF CloseSchedulesMerge(ms, list1, ex)
             THEN ScheduleMerge(ms, cc, pend, count)
             ELSE [ms |-> ms, cc |-> cc, pend |-> pend, count |-> count]
    IN  [list |-> list1, ms |-> r.ms, cc |-> r.cc, pend |-> r.pend,
         count |-> r.count]

\* ActiveNotes with the filter's test negated
ActiveNotesInverted(list, ex) == SelectSeq(list, LAMBDA m : ~ex[m])

\* active_notes = [note for note in self.sticky_notes if note.winfo_exists()]
ActiveNotes(list, ex) == SelectSeq(list, LAMBDA m : ex[m])

\* CountdownHitsZero one completion early
CountdownHitsZeroEarly(rem) == rem <= 1

\* on_anim_complete's test after the decrement
CountdownHitsZero(rem) == rem = 0

SeqToSet(list) == {list[i] : i \in 1..Len(list)}

\* PendingAfterDestroy if destroying a widget left its timers alone
PendingAfterDestroyKept(tick) == tick

\* super().destroy(): what is left of a tick the widget scheduled on itself
\* with self.after once the widget is destroyed.  tkinter's Misc.destroy
\* deletes the Tcl commands the widget registered, the tick's among them, so
\* nothing is left to call step.
PendingAfterDestroy(tick) == 0

\* The controller's phase, recorded when the user closes a note.
ClosePhase ==
    IF ~merge_scheduled THEN "before_merge"
    ELSE IF mergeRuns = 0 THEN "scheduled"
    ELSE "converging"

\* The event loop runs until root.quit(); main() returns after it.
Running == quitCount = 0

\* -------------------------------------------------------------------- Init

\* InitialCreate without the test for an empty text list
InitialCreateAlways(tot) == "after"

\* StickyWallApp.__init__'s root.after(initial_delay, _create_single_note),
\* made only when there are texts
InitialCreate(tot) == IF tot = 0 THEN "none" ELSE "after"

\* StickyWallApp.__init__: with no texts the constructor calls
\* _schedule_merge() itself, otherwise it schedules the first creation.
AppInit ==
    /\ total \in 0..MaxNotes
    /\ interval_ms \in {Max(0, iv) : iv \in Intervals}
    /\ index = 0
    /\ heart_shown = FALSE
    /\ sticky_notes = <<>>
    /\ LET r == IF total = 0
                THEN ScheduleMerge(FALSE, FALSE, 0, 0)
                ELSE [ms |-> FALSE, cc |-> FALSE, pend |-> 0, count |-> 0]
       IN  /\ merge_scheduled = r.ms
           /\ creation_cancelled = r.cc
           /\ startMergePending = r.pend
           /\ mergeSchedules = r.count
    /\ createPending = InitialCreate(total)
    /\ postSpawnPending = 0
    /\ showHeartPending = 0
    /\ mergeRuns = 0
    /\ snapshot = <<>>
    /\ remaining = 0
    /\ heartPositions = 0
    /\ exists = [n \in Notes |-> FALSE]
    /\ on_close = [n \in Notes |-> FALSE]
    /\ alpha = [n \in Notes |-> <<0, 1, 0>>]
    /\ fadeTick = [n \in Notes |-> 0]
    /\ fadeWrites = [n \in Notes |-> 0]
    /\ fadeDone = [n \in Notes |-> 0]
    /\ moveTick = [n \in Notes |-> 0]
    /\ moveWrites = [n \in Notes |-> 0]
    /\ moveDone = [n \in Notes |-> 0]
    /\ closedIn = [n \in Notes |-> "none"]
    /\ liftDead = [n \in Notes |-> 0]
    /\ heartWindows = 0
    /\ heartExists = FALSE
    /\ heartAlpha = <<0, 1, 0>>
    /\ heartFadeTick = 0
    /\ heartFadeWrites = 0
    /\ heartFadeDone = 0
    /\ heartHoldPending = 0
    /\ heartOutTick = 0
    /\ heartOutWrites = 0
    /\ quitCount = 0

\* No driver call is followed on its own in the application's runs.
DriverIdle ==
    /\ dVariant = "none"
    /\ dDuration = 0
    /\ dStarted = FALSE
    /\ dExists = FALSE
    /\ dTick = 0
    /\ dWrites = 0
    /\ dDone = 0
    /\ dAlpha = <<0, 1, 0>>
    /\ dKilledAt = -1

\* No note is followed on its own in the application's runs.
OneIdle ==
    /\ oneExists = FALSE
    /\ oneAlpha = <<0, 1, 0>>
    /\ oneFadeTick = 0
    /\ oneFadeWrites = 0
    /\ oneSpiralDuration = 0
    /\ oneSpiralStarted = FALSE
    /\ oneSpiralTick = 0
    /\ oneSpiralWrites = 0
    /\ oneSpiralDone = 0
    /\ oneOnClose = FALSE
    /\ oneCloseCalls = 0
    /\ oneDestroys = 0

\* generate_positions is not followed on its own.
LayoutIdle ==
    /\ layoutArgs = [count |-> 0, note_width |-> 0, note_height |-> 0,
                     screen_width |-> 0, screen_height |-> 0]
    /\ layoutCalled = FALSE
    /\ layoutResult = <<>>
    /\ layoutCell = <<>>

\* No note's position is followed.
PlaceIdle ==
    /\ pSize = <<0, 0, 0, 0>>
    /\ pExists = FALSE
    /\ pPos = <<0, 0>>
    /\ pDragOrigin = <<>>
    /\ pDrags = 0
    /\ pMoveStarted = FALSE
    /\ pDuration = 0
    /\ pRotation = 0
    /\ pTarget = <<0, 0>>
    /\ pStart = <<0, 0>>
    /\ pTick = 0
    /\ pSteps = 0
    /\ pDone = 0
    /\ pAtComplete = <<>>
    /\ pSpiralStarted = FALSE
    /\ pSpiralDuration = 0
    /\ pCenter = <<0, 0>>
    /\ pSpiralStart = <<0, 0>>
    /\ pSpiralTick = 0
    /\ pSpiralSteps = 0
    /\ pSpiralDone = 0

\* ease_in_out_quad is not followed on its own.
EaseIdle ==
    /\ easeArgs = <<0, 1>>
    /\ easeCalled = FALSE
    /\ easeResult = <<0, 1>>

\* The largest number of active notes whose countdown is followed on its own.
MaxActive == 4

\* No countdown is followed on its own.
CountdownIdle ==
    /\ cdActive = 0
    /\ cdRemaining = 0
    /\ cdCalls = [n \in 1..MaxActive |-> 0]
    /\ cdShowPending = 0

HarnessIdle ==
    OneIdle /\ LayoutIdle /\ PlaceIdle /\ EaseIdle /\ CountdownIdle

Init == AppInit /\ DriverIdle /\ HarnessIdle

\* ----------------------------------------------------------------- actions

\* _create_single_note, fired by its timer; StickyNote.__init__ ends with
\* fade_in(FADE_IN_DURATION_MS), whose step(0) runs inside the constructor.
CreateSingleNote ==
    /\ Running
    /\ createPending # "none"
    /\ IF CreationStops(creation_cancelled, index, total)
       THEN /\ createPending' = "none"
            /\ UNCHANGED <<index, sticky_notes, postSpawnPending, noteVars>>
       ELSE LET n == index + 1
                S == NoteFadeSteps
                done == FadeReachesOne(0, S)
            IN  /\ exists' = [exists EXCEPT ![n] = TRUE]
                /\ on_close' = [on_close EXCEPT ![n] = TRUE]
                /\ alpha' = [alpha EXCEPT ![n] = FadeAlpha(0, S)]
                /\ fadeWrites' = [fadeWrites EXCEPT ![n] = 1]
                /\ fadeDone' = [fadeDone EXCEPT ![n] = IF done THEN 1 ELSE 0]
                /\ fadeTick' = [fadeTick EXCEPT ![n] =
                       IF done THEN 0 ELSE NextIndex(0)]
                /\ sticky_notes' = Append(sticky_notes, n)
                /\ index' = index + 1
                /\ IF index + 1 >= total
                   THEN /\ postSpawnPending' = postSpawnPending + 1
                        /\ createPending' = "none"
                   ELSE /\ postSpawnPending' = postSpawnPending
                        /\ createPending' =
                               IF interval_ms <= 0 THEN "after_idle" ELSE "after"
                /\ UNCHANGED <<moveTick, moveWrites, moveDone, closedIn,
                               liftDead>>
    /\ UNCHANGED <<total, interval_ms, creation_cancelled, merge_scheduled,
                   heart_shown, startMergePending, showHeartPending,
                   mergeSchedules, mergeRuns, snapshot, remaining,
                   heartPositions, heartVars,
                   driverVars, harnessVars>>

\* One tick of a note's fade_in: step(index) scheduled by self.after.
FadeTick(n) ==
    /\ Running
    /\ fadeTick[n] > 0
    /\ LET k == fadeTick[n]
           S == NoteFadeSteps
       IN  IF ~exists[n]
           THEN /\ fadeDone' = [fadeDone EXCEPT ![n] = @ + 1]
                /\ liftDead' = [liftDead EXCEPT ![n] = @ + 1]
                /\ fadeTick' = [fadeTick EXCEPT ![n] = 0]
                /\ UNCHANGED <<alpha, fadeWrites>>
           ELSE /\ alpha' = [alpha EXCEPT ![n] = FadeAlpha(k, S)]
                /\ fadeWrites' = [fadeWrites EXCEPT ![n] = @ + 1]
                /\ liftDead' = liftDead
                /\ IF FadeReachesOne(k, S)
                   THEN /\ fadeDone' = [fadeDone EXCEPT ![n] = @ + 1]
                        /\ fadeTick' = [fadeTick EXCEPT ![n] = 0]
                   ELSE /\ fadeDone' = fadeDone
                        /\ fadeTick' = [fadeTick EXCEPT ![n] = NextIndex(k)]
    /\ UNCHANGED <<appVars, heartVars, exists, on_close, moveTick, moveWrites,
                   moveDone, closedIn, driverVars, harnessVars>>

\* The user closes a note (close button, double click or Escape):
\* StickyNote.destroy.  The close callback runs first, then the window is
\* destroyed, which deletes the note's pending `after` callbacks.
UserClose(n) ==
    /\ Running
    /\ exists[n]
    /\ LET r == IF on_close[n]
                THEN HandleNoteClose(n, sticky_notes, exists, merge_scheduled,
                                     creation_cancelled, startMergePending,
                                     mergeSchedules)
                ELSE [list |-> sticky_notes, ms |-> merge_scheduled,
                      cc |-> creation_cancelled, pend |-> startMergePending,
                      count |-> mergeSchedules]
       IN  /\ sticky_notes' = r.list
           /\ merge_scheduled' = r.ms
           /\ creation_cancelled' = r.cc
           /\ startMergePending' = r.pend
           /\ mergeSchedules' = r.count
    /\ on_close' = [on_close EXCEPT ![n] = FALSE]
    /\ exists' = [exists EXCEPT ![n] = FALSE]
    /\ fadeTick' = [fadeTick EXCEPT ![n] = PendingAfterDestroy(fadeTick[n])]
    /\ moveTick' = [moveTick EXCEPT ![n] = PendingAfterDestroy(moveTick[n])]
    /\ closedIn' = [closedIn EXCEPT ![n] = ClosePhase]
    /\ UNCHANGED <<total, interval_ms, index, heart_shown, createPending,
                   postSpawnPending, showHeartPending, mergeRuns, snapshot,
                   remaining, heartPositions, alpha, fadeWrites, fadeDone,
                   moveWrites, moveDone, liftDead, heartVars,
                   driverVars, harnessVars>>

\* root.after(FADE_IN_DURATION_MS, self._schedule_merge) fires.
PostSpawnScheduleMerge ==
    /\ Running
    /\ postSpawnPending > 0
    /\ postSpawnPending' = postSpawnPending - 1
    /\ LET r == ScheduleMerge(merge_scheduled, creation_cancelled,
                              startMergePending, mergeSchedules)
       IN  /\ merge_scheduled' = r.ms
           /\ creation_cancelled' = r.cc
           /\ startMergePending' = r.pend
           /\ mergeSchedules' = r.count
    /\ UNCHANGED <<total, interval_ms, index, heart_shown, sticky_notes,
                   createPending, showHeartPending, mergeRuns, snapshot,
                   remaining, heartPositions, noteVars, heartVars,
                   driverVars, harnessVars>>


\* fade_out_and_destroy's step(count): new_alpha = 1.0 - count * decrement
\* with decrement = 1.0 / steps; positive exactly while count < steps (the
\* double product 10 * 0.1 is 1.0).  FadeOutUlps is the rounding of the
\* double written, by count + 1.
FadeOutUlps == <<0, 0, 0, 0, 0, 0, -2, -1, -2, -2, 0>>
FadeOutAlpha(count) ==
    <<FADE_OUT_STEPS - count, FADE_OUT_STEPS, FadeOutUlps[count + 1]>>
\* FadeOutPositive taking a zero alpha for positive
FadeOutPositiveInclusive(count) == count <= FADE_OUT_STEPS

FadeOutPositive(count) == count < FADE_OUT_STEPS

\* close_and_quit: heart_window.after(1500, fade_out_and_destroy)
CloseAndQuit(hold) == hold + 1

\* ShowMergedHeartNote that never sets its one-shot flag
ShowMergedHeartNoteFlagless ==
    IF heart_shown
    THEN UNCHANGED <<heart_shown, heartWindows, heartExists, heartAlpha,
                     heartFadeTick, heartFadeWrites, heartFadeDone,
                     heartHoldPending>>
    ELSE LET S == HeartFadeSteps
             done == FadeReachesOne(0, S)
         IN  /\ heart_shown' = heart_shown
             /\ heartWindows' = heartWindows + 1
             /\ heartExists' = TRUE
             /\ heartAlpha' = FadeAlpha(0, S)
             /\ heartFadeWrites' = heartFadeWrites + 1
             /\ heartFadeDone' = heartFadeDone + (IF done THEN 1 ELSE 0)
             /\ heartFadeTick' = IF done THEN 0 ELSE NextIndex(0)
             /\ heartHoldPending' =
                    IF done THEN CloseAndQuit(heartHoldPending)
                    ELSE heartHoldPending

\* _show_merged_heart_note: the one-shot flag, the window, and
\* fade_in_widget(heart_window, 500, close_and_quit), whose step(0) runs
\* inside the call.
ShowMergedHeartNote ==
    IF heart_shown
    THEN UNCHANGED <<heart_shown, heartWindows, heartExists, heartAlpha,
                     heartFadeTick, heartFadeWrites, heartFadeDone,
                     heartHoldPending>>
    ELSE LET S == HeartFadeSteps
             done == FadeReachesOne(0, S)
         IN  /\ heart_shown' = TRUE
             /\ heartWindows' = heartWindows + 1
             /\ heartExists' = TRUE
             /\ heartAlpha' = FadeAlpha(0, S)
             /\ heartFadeWrites' = heartFadeWrites + 1
             /\ heartFadeDone' = heartFadeDone + (IF done THEN 1 ELSE 0)
             /\ heartFadeTick' = IF done THEN 0 ELSE NextIndex(0)
             /\ heartHoldPending' =
                    IF done THEN CloseAndQuit(heartHoldPending)
                    ELSE heartHoldPending

\* on_anim_complete: the decrement, and the final message scheduled at zero
OnAnimComplete(rem, pend) ==
    [rem |-> rem - 1,
     pend |-> pend + (IF CountdownHitsZero(rem - 1) THEN 1 ELSE 0)]

\* on_anim_complete called c times in a row
RECURSIVE OnAnimCompleteTimes(_, _, _)
OnAnimCompleteTimes(c, rem, pend) ==
    IF c = 0 THEN [rem |-> rem, pend |-> pend]
    ELSE LET r == OnAnimComplete(rem, pend)
         IN  OnAnimCompleteTimes(c - 1, r.rem, r.pend)

\* _start_merge_animation, fired by its timer.  With no active note it calls
\* _show_merged_heart_note(); otherwise it computes the heart positions and
\* calls animate_to_position on every active note, whose step(0) runs inside
\* the call.
StartMergeAnimation ==
    /\ Running
    /\ startMergePending > 0
    /\ startMergePending' = startMergePending - 1
    /\ mergeRuns' = mergeRuns + 1
    /\ LET active == ActiveNotes(sticky_notes, exists)
           S == MoveSteps
           sync == ProgressDone(0, S)
           r == OnAnimCompleteTimes(IF sync THEN Len(active) ELSE 0,
                                    Len(active), showHeartPending)
       IN  IF active = <<>>
           THEN /\ ShowMergedHeartNote
                /\ UNCHANGED <<snapshot, remaining, heartPositions,
                               showHeartPending, moveTick, moveWrites,
                               moveDone>>
           ELSE /\ heartPositions' = heartPositions + 1
                /\ snapshot' = active
                /\ remaining' = r.rem
                /\ showHeartPending' = r.pend
                /\ moveWrites' = [n \in Notes |->
                       IF n \in SeqToSet(active) THEN moveWrites[n] + 1
                       ELSE moveWrites[n]]
                /\ moveDone' = [n \in Notes |->
                       IF n \in SeqToSet(active) /\ sync THEN moveDone[n] + 1
                       ELSE moveDone[n]]
                /\ moveTick' = [n \in Notes |->
                       IF n \in SeqToSet(active)
                       THEN (IF sync THEN 0 ELSE NextIndex(0))
                       ELSE moveTick[n]]
                /\ UNCHANGED <<heart_shown, heartWindows, heartExists,
                               heartAlpha, heartFadeTick, heartFadeWrites,
                               heartFadeDone, heartHoldPending>>
    /\ UNCHANGED <<total, interval_ms, index, creation_cancelled,
                   merge_scheduled, sticky_notes, createPending,
                   postSpawnPending, mergeSchedules, exists, on_close, alpha,
                   fadeTick, fadeWrites, fadeDone, closedIn, liftDead,
                   heartOutTick, heartOutWrites, quitCount, driverVars, harnessVars>>

\* One tick of a note's animate_to_position: step(index) scheduled by
\* self.after.  The last step snaps to the target and calls on_anim_complete.
MoveTick(n) ==
    /\ Running
    /\ moveTick[n] > 0
    /\ LET k == moveTick[n]
           S == MoveSteps
           r == OnAnimComplete(remaining, showHeartPending)
       IN  IF ~exists[n]
           THEN /\ moveDone' = [moveDone EXCEPT ![n] = @ + 1]
                /\ moveTick' = [moveTick EXCEPT ![n] = 0]
                /\ remaining' = r.rem
                /\ showHeartPending' = r.pend
                /\ UNCHANGED moveWrites
           ELSE /\ moveWrites' = [moveWrites EXCEPT ![n] = @ + 1]
                /\ IF ProgressDone(k, S)
                   THEN /\ moveDone' = [moveDone EXCEPT ![n] = @ + 1]
                        /\ moveTick' = [moveTick EXCEPT ![n] = 0]
                        /\ remaining' = r.rem
                        /\ showHeartPending' = r.pend
                   ELSE /\ moveTick' = [moveTick EXCEPT ![n] = NextIndex(k)]
                        /\ UNCHANGED <<moveDone, remaining, showHeartPending>>
    /\ UNCHANGED <<total, interval_ms, index, creation_cancelled,
                   merge_scheduled, heart_shown, sticky_notes, createPending,
                   postSpawnPending, startMergePending, mergeSchedules,
                   mergeRuns, snapshot, heartPositions, exists, on_close,
                   alpha, fadeTick, fadeWrites, fadeDone, closedIn, liftDead,
                   heartVars, driverVars, harnessVars>>

\* root.after(500, self._show_merged_heart_note) fires.
ShowHeartTimer ==
    /\ Running
    /\ showHeartPending > 0
    /\ showHeartPending' = showHeartPending - 1
    /\ ShowMergedHeartNote
    /\ UNCHANGED <<total, interval_ms, index, creation_cancelled,
                   merge_scheduled, sticky_notes, createPending,
                   postSpawnPending, startMergePending, mergeSchedules,
                   mergeRuns, snapshot, remaining, heartPositions, noteVars,
                   heartOutTick, heartOutWrites, quitCount,
                   driverVars, harnessVars>>

\* One tick of fade_in_widget on the heart window; its completion is
\* close_and_quit.
HeartFadeTick ==
    /\ Running
    /\ heartFadeTick > 0
    /\ LET k == heartFadeTick
           S == HeartFadeSteps
       IN  IF ~heartExists
           THEN /\ heartFadeDone' = heartFadeDone + 1
                /\ heartFadeTick' = 0
                /\ heartHoldPending' = CloseAndQuit(heartHoldPending)
                /\ UNCHANGED <<heartAlpha, heartFadeWrites>>
           ELSE /\ heartAlpha' = FadeAlpha(k, S)
                /\ heartFadeWrites' = heartFadeWrites + 1
                /\ IF FadeReachesOne(k, S)
                   THEN /\ heartFadeDone' = heartFadeDone + 1
                        /\ heartFadeTick' = 0
                        /\ heartHoldPending' = CloseAndQuit(heartHoldPending)
                   ELSE /\ heartFadeTick' = NextIndex(k)
                        /\ UNCHANGED <<heartFadeDone, heartHoldPending>>
    /\ UNCHANGED <<appVars, noteVars, heartWindows, heartExists, heartOutTick,
                   heartOutWrites, quitCount,
                   driverVars, harnessVars>>

\* fade_out_and_destroy's step(count): write the alpha and go on while it is
\* positive, else destroy the heart window and call root.quit().
FadeOutStep(count) ==
    IF FadeOutPositive(count)
    THEN /\ heartAlpha' = FadeOutAlpha(count)
         /\ heartOutWrites' = heartOutWrites + 1
         /\ heartOutTick' = NextIndex(count)
         /\ UNCHANGED <<heartExists, quitCount>>
    ELSE /\ heartExists' = FALSE
         /\ quitCount' = quitCount + 1
         /\ heartOutTick' = 0
         /\ UNCHANGED <<heartAlpha, heartOutWrites>>

\* heart_window.after(1500, fade_out_and_destroy) fires: step(0).
HeartHoldTimer ==
    /\ Running
    /\ heartHoldPending > 0
    /\ heartHoldPending' = heartHoldPending - 1
    /\ FadeOutStep(0)
    /\ UNCHANGED <<appVars, noteVars, heartWindows, heartFadeTick,
                   heartFadeWrites, heartFadeDone,
                   driverVars, harnessVars>>

\* heart_window.after(20, lambda: step(count + 1)) fires.
HeartFadeOutTick ==
    /\ Running
    /\ heartOutTick > 0
    /\ FadeOutStep(heartOutTick)
    /\ UNCHANGED <<appVars, noteVars, heartWindows, heartFadeTick,
                   heartFadeWrites, heartFadeDone, heartHoldPending,
                   driverVars, harnessVars>>

\* A callback of the event loop's timer queue.
TimerCallback ==
    \/ CreateSingleNote
    \/ PostSpawnScheduleMerge
    \/ StartMergeAnimation
    \/ ShowHeartTimer
    \/ HeartFadeTick
    \/ HeartHoldTimer
    \/ HeartFadeOutTick
    \/ \E n \in Notes : FadeTick(n)
    \/ \E n \in Notes : MoveTick(n)

Next ==
    \/ TimerCallback
    \/ \E n \in Notes : UserClose(n)

Spec == Init /\ [][Next]_vars


\* ------------------------------------------------- one driver on its own

Variants == {"fade_in", "fade_in_widget", "animate_spiral",
             "animate_to_position"}
Durations == {0, 20, 60, 500, 980}

IsFade(v) == v \in {"fade_in", "fade_in_widget"}

\* Whether step(index) of the driver is its last: the fades end on
\* new_alpha >= 1.0, the two movers on progress >= 1.0.
StepIsLast(v, k, S) ==
    IF IsFade(v) THEN FadeReachesOne(k, S) ELSE ProgressDone(k, S)

\* The alpha step(index) leaves on the target: the fades and the spiral write
\* it, animate_to_position writes only the position.
StepAlpha(v, k, S, old) ==
    IF IsFade(v) THEN FadeAlpha(k, S)
    ELSE IF v = "animate_spiral" THEN SpiralAlpha(k, S)
    ELSE old

\* step(index) of any of the four drivers: a vanished target gets the
\* completion callback and nothing else; otherwise the step writes, and
\* either completes (animate_spiral then destroys its note) or schedules
\* step(index + 1) on the target.
DriverStep(k) ==
    LET S == Steps(dDuration)
    IN  IF ~dExists
        THEN /\ dDone' = dDone + 1
             /\ dTick' = 0
             /\ UNCHANGED <<dWrites, dAlpha, dExists>>
        ELSE /\ dWrites' = dWrites + 1
             /\ dAlpha' = StepAlpha(dVariant, k, S, dAlpha)
             /\ IF StepIsLast(dVariant, k, S)
                THEN /\ dDone' = dDone + 1
                     /\ dTick' = 0
                     /\ dExists' = (dExists /\ dVariant # "animate_spiral")
                ELSE /\ dTick' = NextIndex(k)
                     /\ UNCHANGED <<dDone, dExists>>

\* The driver function is called; its step(0) runs inside the call.
DriverBegin ==
    /\ ~dStarted
    /\ dStarted' = TRUE
    /\ DriverStep(0)
    /\ UNCHANGED <<dVariant, dDuration, dKilledAt, appVars, noteVars,
                   heartVars, harnessVars>>

\* target.after(FADE_INTERVAL_MS, lambda: step(index + 1)) fires.
DriverTick ==
    /\ dStarted
    /\ dTick > 0
    /\ DriverStep(dTick)
    /\ UNCHANGED <<dVariant, dDuration, dStarted, dKilledAt, appVars,
                   noteVars, heartVars, harnessVars>>

\* The target is destroyed from outside between two ticks; destroying the
\* widget deletes its pending `after` callback.
DriverTargetDestroyed ==
    /\ dStarted
    /\ dExists
    /\ dTick > 0
    /\ dExists' = FALSE
    /\ dTick' = PendingAfterDestroy(dTick)
    /\ dKilledAt' = dWrites
    /\ UNCHANGED <<dVariant, dDuration, dStarted, dWrites, dDone, dAlpha,
                   appVars, noteVars, heartVars, harnessVars>>

\* The application's variables while a driver is followed on its own: the
\* controller as constructed with no texts.
AppIdle ==
    /\ AppInit
    /\ total = 0
    /\ interval_ms = 0

DriverInit ==
    /\ AppIdle
    /\ HarnessIdle
    /\ dVariant \in Variants
    /\ dDuration \in Durations
    /\ dStarted = FALSE
    /\ dExists \in BOOLEAN
    /\ dTick = 0
    /\ dWrites = 0
    /\ dDone = 0
    /\ dAlpha = <<0, 1, 0>>
    /\ dKilledAt = -1

DriverNext ==
    \/ DriverBegin
    \/ DriverTick
    \/ DriverTargetDestroyed

DriverSpec == DriverInit /\ [][DriverNext]_vars


\* ---------------------------------------------- one StickyNote on its own

\* A StickyNote constructed with an on_close callback whose calls are
\* counted: its constructor starts fade_in(FADE_IN_DURATION_MS), and
\* animate_spiral and destroy may be called on it at any moment, while the
\* fade-in is in flight or later.

\* a <= b for two alphas: by their fractions (positive denominators), and
\* by their rounding where the fractions are equal
AlphaLeq(a, b) ==
    \/ a[1] * b[2] < b[1] * a[2]
    \/ a[1] * b[2] = b[1] * a[2] /\ a[3] <= b[3]

SpiralDurations == {20, 60, 500}

\* destroy() may be called again on the destroyed note up to this many calls
MaxDestroys == 3

\* NoteDestroy if destroy() left _on_close in place
NoteDestroyKeepingCallback(has_close, calls) ==
    [on_close |-> has_close, calls |-> IF has_close THEN calls + 1 ELSE calls]

\* StickyNote.destroy, on _on_close and the calls made of the callback: the
\* callback is taken out of _on_close before it is called.
NoteDestroy(has_close, calls) ==
    [on_close |-> FALSE, calls |-> IF has_close THEN calls + 1 ELSE calls]

\* SpiralSelfDestroys if the last step left the note in place
SpiralNeverDestroys(last) == FALSE

\* animate_spiral's step ends with self.destroy() exactly when
\* progress >= 1.0
SpiralSelfDestroys(last) == last

\* StickyNote.__init__: attributes('-alpha', 0.0), then fade_in, whose
\* step(0) runs inside the constructor.
OneInit ==
    /\ AppIdle
    /\ DriverIdle
    /\ LayoutIdle
    /\ PlaceIdle
    /\ EaseIdle
    /\ CountdownIdle
    /\ oneExists = TRUE
    /\ oneAlpha = FadeAlpha(0, Steps(FADE_IN_DURATION_MS))
    /\ oneFadeWrites = 1
    /\ oneFadeTick = IF FadeReachesOne(0, Steps(FADE_IN_DURATION_MS))
                     THEN 0 ELSE NextIndex(0)
    /\ oneSpiralDuration \in SpiralDurations
    /\ oneSpiralStarted = FALSE
    /\ oneSpiralTick = 0
    /\ oneSpiralWrites = 0
    /\ oneSpiralDone = 0
    /\ oneOnClose = TRUE
    /\ oneCloseCalls = 0
    /\ oneDestroys = 0

\* One tick of the note's fade_in.
OneFadeTick ==
    /\ oneFadeTick > 0
    /\ oneExists
    /\ LET k == oneFadeTick
           S == Steps(FADE_IN_DURATION_MS)
       IN  /\ oneAlpha' = FadeAlpha(k, S)
           /\ oneFadeWrites' = oneFadeWrites + 1
           /\ oneFadeTick' = IF FadeReachesOne(k, S) THEN 0 ELSE NextIndex(k)
    /\ UNCHANGED <<oneExists, oneSpiralDuration, oneSpiralStarted,
                   oneSpiralTick, oneSpiralWrites, oneSpiralDone, oneOnClose,
                   oneCloseCalls, oneDestroys, appVars, noteVars, heartVars,
                   driverVars, layoutVars, placeVars, easeVars,
                   countdownVars>>

\* animate_spiral's step(index) on the existing note: the alpha write, and at
\* progress >= 1.0 on_complete() and self.destroy(), which calls the close
\* callback and deletes the note's pending ticks; otherwise the next tick.
OneSpiralStep(k) ==
    LET S == Steps(oneSpiralDuration)
        last == ProgressDone(k, S)
        d == NoteDestroy(oneOnClose, oneCloseCalls)
    IN  /\ oneAlpha' = SpiralAlpha(k, S)
        /\ oneSpiralWrites' = oneSpiralWrites + 1
        /\ oneSpiralDone' = IF last THEN oneSpiralDone + 1 ELSE oneSpiralDone
        /\ IF SpiralSelfDestroys(last)
           THEN /\ oneOnClose' = d.on_close
                /\ oneCloseCalls' = d.calls
                /\ oneDestroys' = oneDestroys + 1
                /\ oneExists' = FALSE
                /\ oneSpiralTick' = 0
                /\ oneFadeTick' = PendingAfterDestroy(oneFadeTick)
           ELSE /\ oneSpiralTick' = IF last THEN 0 ELSE NextIndex(k)
                /\ UNCHANGED <<oneExists, oneFadeTick, oneOnClose,
                               oneCloseCalls, oneDestroys>>

\* animate_spiral is called: a vanished note gets on_complete() and nothing
\* else, otherwise step(0) runs inside the call.
OneSpiralBegin ==
    /\ ~oneSpiralStarted
    /\ oneSpiralStarted' = TRUE
    /\ IF ~oneExists
       THEN /\ oneSpiralDone' = oneSpiralDone + 1
            /\ UNCHANGED <<oneAlpha, oneSpiralWrites, oneExists,
                           oneSpiralTick, oneFadeTick, oneOnClose,
                           oneCloseCalls, oneDestroys>>
       ELSE OneSpiralStep(0)
    /\ UNCHANGED <<oneFadeWrites, oneSpiralDuration, appVars, noteVars,
                   heartVars, driverVars, layoutVars,
                   placeVars, easeVars,
                   countdownVars>>

\* One tick of the note's animate_spiral.
OneSpiralTick ==
    /\ oneSpiralTick > 0
    /\ oneExists
    /\ OneSpiralStep(oneSpiralTick)
    /\ UNCHANGED <<oneFadeWrites, oneSpiralDuration, oneSpiralStarted,
                   appVars, noteVars, heartVars, driverVars, layoutVars,
                   placeVars, easeVars,
                   countdownVars>>

\* The user closes the note (close button, double click or Escape):
\* destroy() calls the close callback and deletes the note's pending ticks.
OneDestroy ==
    /\ oneExists
    /\ LET d == NoteDestroy(oneOnClose, oneCloseCalls)
       IN  /\ oneOnClose' = d.on_close
           /\ oneCloseCalls' = d.calls
    /\ oneDestroys' = oneDestroys + 1
    /\ oneExists' = FALSE
    /\ oneFadeTick' = PendingAfterDestroy(oneFadeTick)
    /\ oneSpiralTick' = PendingAfterDestroy(oneSpiralTick)
    /\ UNCHANGED <<oneAlpha, oneFadeWrites, oneSpiralDuration,
                   oneSpiralStarted, oneSpiralWrites, oneSpiralDone, appVars,
                   noteVars, heartVars, driverVars, layoutVars,
                   placeVars, easeVars,
                   countdownVars>>

\* destroy() is called on the note once more after it was destroyed: the
\* window and its ticks are gone already, _on_close decides about the
\* callback.
OneDestroyAgain ==
    /\ ~oneExists
    /\ oneDestroys < MaxDestroys
    /\ LET d == NoteDestroy(oneOnClose, oneCloseCalls)
       IN  /\ oneOnClose' = d.on_close
           /\ oneCloseCalls' = d.calls
    /\ oneDestroys' = oneDestroys + 1
    /\ UNCHANGED <<oneExists, oneAlpha, oneFadeTick, oneFadeWrites,
                   oneSpiralDuration, oneSpiralStarted, oneSpiralTick,
                   oneSpiralWrites, oneSpiralDone, appVars, noteVars,
                   heartVars, driverVars, layoutVars, placeVars, easeVars,
                   countdownVars>>

NoteNext ==
    \/ OneFadeTick
    \/ OneSpiralBegin
    \/ OneSpiralTick
    \/ OneDestroy
    \/ OneDestroyAgain

NoteSpec == OneInit /\ [][NoteNext]_vars


\* ------------------------------------------------------ generate_positions

NOTE_GLOW_PADDING == 18

\* The largest count handed to generate_positions.
MaxCount == 3

\* The outcomes of random.random() followed, as fractions <<num, den>>:
\* random.uniform(a, b) is a + (b - a) * random.random().
JitterOutcomes == {<<0, 1>>, <<1, 2>>, <<3, 4>>}

\* (note_width, note_height, screen_width, screen_height): a screen one
\* column wide, one two columns wide, and one too narrow for a note and its
\* padding.
LayoutSizes == {<<260, 160, 320, 384>>, <<260, 160, 640, 384>>,
                <<260, 160, 280, 384>>}

\* cols = max(1, int(screen_width / (note_width + 40)))
Cols(screen_width, note_width) == Max(1, screen_width \div (note_width + 40))

\* rows = -(-count // cols)
Rows(count, cols) == (count + cols - 1) \div cols

\* x = col * cell_width + random.uniform(-jitter_x, jitter_x) + jitter_x with
\* cell_width = screen_width / cols and jitter_x = (cell_width - note_width)
\* / 2 (and the same for y with rows), as the fraction <<num, den>>: the
\* cell's origin plus the share r of the room the note has in its cell.
CellCoordinate(c, screen, cells, note, r) ==
    <<c * screen * r[2] + (screen - note * cells) * r[1], cells * r[2]>>

\* ClampInt without the upper limit
ClampIntLowerOnly(v, screen, note) ==
    IF v[1] < NOTE_GLOW_PADDING * v[2] THEN NOTE_GLOW_PADDING
    ELSE v[1] \div v[2]

\* int(max(NOTE_GLOW_PADDING, min(v, screen - note - NOTE_GLOW_PADDING)))
ClampInt(v, screen, note) ==
    LET hi == screen - note - NOTE_GLOW_PADDING
    IN  IF v[1] < NOTE_GLOW_PADDING * v[2] THEN NOTE_GLOW_PADDING
        ELSE IF v[1] > hi * v[2] THEN Max(NOTE_GLOW_PADDING, hi)
        ELSE v[1] \div v[2]

\* The position the loop computes at index i, with jitter outcomes rx, ry.
CellPosition(i, a, rx, ry) ==
    LET cols == Cols(a.screen_width, a.note_width)
        rows == Rows(a.count, cols)
    IN  <<ClampInt(CellCoordinate(i % cols, a.screen_width, cols,
                                  a.note_width, rx),
                   a.screen_width, a.note_width),
          ClampInt(CellCoordinate(i \div cols, a.screen_height, rows,
                                  a.note_height, ry),
                   a.screen_height, a.note_height)>>

\* The orders random.shuffle can leave a list of n items in.
Shuffles(n) == {q \in [1..n -> 1..n] : \A i, j \in 1..n : q[i] = q[j] => i = j}

LayoutInit ==
    /\ AppIdle
    /\ DriverIdle
    /\ OneIdle
    /\ PlaceIdle
    /\ EaseIdle
    /\ CountdownIdle
    /\ \E c \in -1..MaxCount, z \in LayoutSizes :
           layoutArgs = [count |-> c, note_width |-> z[1],
                         note_height |-> z[2], screen_width |-> z[3],
                         screen_height |-> z[4]]
    /\ layoutCalled = FALSE
    /\ layoutResult = <<>>
    /\ layoutCell = <<>>

\* generate_positions(count, note_width, note_height, screen_width,
\* screen_height): the empty list for count <= 0, else one position per loop
\* index, each with its own jitter, and the list shuffled.
GeneratePositions ==
    /\ ~layoutCalled
    /\ layoutCalled' = TRUE
    /\ IF layoutArgs.count <= 0
       THEN /\ layoutResult' = <<>>
            /\ layoutCell' = <<>>
       ELSE \E rx, ry \in [0..(layoutArgs.count - 1) -> JitterOutcomes],
              q \in Shuffles(layoutArgs.count) :
                /\ layoutResult' = [k \in 1..layoutArgs.count |->
                       CellPosition(q[k] - 1, layoutArgs, rx[q[k] - 1],
                                    ry[q[k] - 1])]
                /\ layoutCell' = [k \in 1..layoutArgs.count |-> q[k] - 1]
    /\ UNCHANGED <<layoutArgs, appVars, noteVars, heartVars, driverVars,
                   oneVars, placeVars, easeVars,
                   countdownVars>>

LayoutNext == GeneratePositions

LayoutSpec == LayoutInit /\ [][LayoutNext]_vars


\* ------------------------------------------- the position of a StickyNote

\* A note placed at a position of generate_positions, dragged by the user,
\* moved by animate_to_position to a target of generate_heart_positions and
\* spiralled out by animate_spiral, in any order.

\* The most button presses followed.
MaxDrags == 1

\* int(v) of a fraction <<num, den>>: truncation towards zero
PyInt(v) ==
    IF v[1] >= 0 THEN v[1] \div v[2] ELSE -((-v[1]) \div v[2])

\* math.sin and math.cos of the swing angle, in ten-thousandths, at the angles
\* of the moves followed (multiples of 36 degrees off the axes)
TenThousandth == 10000
SwingAngles == {72, 108, 144, 216, 288, 324}
SinTenThousandths == [d \in SwingAngles |->
    CASE d = 72 -> 9511 [] d = 108 -> 9511 [] d = 144 -> 5878
      [] d = 216 -> -5878 [] d = 288 -> -9511 [] d = 324 -> -5878]
CosTenThousandths == [d \in SwingAngles |->
    CASE d = 72 -> 3090 [] d = 108 -> -3090 [] d = 144 -> -8090
      [] d = 216 -> -8090 [] d = 288 -> 3090 [] d = 324 -> 8090]

\* rotation_angle * 4 in degrees, modulo a full turn: progress *
\* rotation_count * 360 * 4 with rotation_count in tenths
SwingAngle(k, steps, rotation) == (((k + 1) * rotation * 144) \div steps) % 360

\* The position step(index) writes first: start + (target - start) *
\* eased_progress plus the swing offset sin / cos (angle) * (1 -
\* eased_progress) * 5, truncated by int().
SwungPosition(k, steps, start, target, rotation) ==
    LET e == EaseInOutQuad(k + 1, steps)
        a == SwingAngle(k, steps, rotation)
        at(c, trig) == PyInt(<<start[c] * e[2] * TenThousandth
                                 + (target[c] - start[c]) * e[1] * TenThousandth
                                 + trig * 5 * (e[2] - e[1]),
                               e[2] * TenThousandth>>)
    IN  <<at(1, SinTenThousandths[a]), at(2, CosTenThousandths[a])>>

\* SnapPosition with the two coordinates exchanged
SnapPositionSwapped(target) == <<target[2], target[1]>>

\* self.geometry(f'+{int(target_x)}+{int(target_y)}') of the last step
SnapPosition(target) == <<PyInt(<<target[1], 1>>), PyInt(<<target[2], 1>>)>>

PlaceSizes == {<<260, 160, 320, 384>>}
PlaceDurations == {20, 80}
RotationTenths == {16, 23}
\* pointer positions (event.x_root, event.y_root) of the events followed
Pointers == {<<100, 100>>, <<60, 140>>}
\* unclamped heart coordinates: generate_heart_positions clamps and
\* truncates each as generate_positions does
RawTargets == {-50, 30}
\* duration_ms of the animate_spiral call
PlaceSpiralDurations == {20, 60}
\* its center: the middle of the screen
SpiralCenters(size) == {<<size[3] \div 2, size[4] \div 2>>}
\* the fields of the animate_spiral call
spiralVars == <<pSpiralStarted, pSpiralDuration, pCenter, pSpiralStart,
                pSpiralTick, pSpiralSteps, pSpiralDone>>

PlaceInit ==
    /\ AppIdle
    /\ DriverIdle
    /\ OneIdle
    /\ LayoutIdle
    /\ EaseIdle
    /\ CountdownIdle
    /\ pSize \in PlaceSizes
    /\ pExists = TRUE
    /\ \E rx, ry \in JitterOutcomes :
           pPos = CellPosition(0, [count |-> 1, note_width |-> pSize[1],
                                   note_height |-> pSize[2],
                                   screen_width |-> pSize[3],
                                   screen_height |-> pSize[4]], rx, ry)
    /\ pDragOrigin = <<>>
    /\ pDrags = 0
    /\ pMoveStarted = FALSE
    /\ pDuration \in PlaceDurations
    /\ pRotation \in RotationTenths
    /\ \E tx, ty \in RawTargets :
           pTarget = <<ClampInt(<<tx, 1>>, pSize[3], pSize[1]),
                       ClampInt(<<ty, 1>>, pSize[4], pSize[2])>>
    /\ pStart = <<0, 0>>
    /\ pTick = 0
    /\ pSteps = 0
    /\ pDone = 0
    /\ pAtComplete = <<>>
    /\ pSpiralStarted = FALSE
    /\ pSpiralDuration \in PlaceSpiralDurations
    /\ pCenter \in SpiralCenters(pSize)
    /\ pSpiralStart = <<0, 0>>
    /\ pSpiralTick = 0
    /\ pSpiralSteps = 0
    /\ pSpiralDone = 0

\* _start_move: <Button-1> on the note
StartMove(e) ==
    /\ pExists
    /\ pDrags < MaxDrags
    /\ pDrags' = pDrags + 1
    /\ pDragOrigin' = <<e[1], e[2], pPos[1], pPos[2]>>
    /\ UNCHANGED <<spiralVars, pSize, pExists, pPos, pMoveStarted, pDuration, pRotation,
                   pTarget, pStart, pTick, pSteps, pDone, pAtComplete,
                   appVars, noteVars, heartVars, driverVars, oneVars,
                   layoutVars, easeVars,
                   countdownVars>>

\* _drag_move: <B1-Motion> on the note
DragMove(e) ==
    /\ pExists
    /\ pDragOrigin # <<>>
    /\ pPos' = <<pDragOrigin[3] + (e[1] - pDragOrigin[1]),
                 pDragOrigin[4] + (e[2] - pDragOrigin[2])>>
    /\ UNCHANGED <<spiralVars, pSize, pExists, pDragOrigin, pDrags,
                   pMoveStarted,
                   pDuration, pRotation, pTarget, pStart, pTick, pSteps,
                   pDone, pAtComplete, appVars, noteVars, heartVars,
                   driverVars, oneVars, layoutVars, easeVars,
                   countdownVars>>

\* _stop_move: <ButtonRelease-1> on the note
StopMove ==
    /\ pExists
    /\ pDragOrigin # <<>>
    /\ pDragOrigin' = <<>>
    /\ UNCHANGED <<spiralVars, pSize, pExists, pPos, pDrags, pMoveStarted,
                   pDuration,
                   pRotation, pTarget, pStart, pTick, pSteps, pDone,
                   pAtComplete, appVars, noteVars, heartVars, driverVars,
                   oneVars, layoutVars, easeVars,
                   countdownVars>>

\* animate_to_position's step(index) on the existing note, from start: the
\* swung position, and at progress >= 1.0 the snap to the target and then
\* on_complete(); otherwise the next tick.
PlaceStep(k, start) ==
    LET S == Steps(pDuration)
    IN  /\ pSteps' = pSteps + 1
        /\ IF ProgressDone(k, S)
           THEN /\ pPos' = SnapPosition(pTarget)
                /\ pDone' = pDone + 1
                /\ pAtComplete' = Append(pAtComplete, pPos')
                /\ pTick' = 0
           ELSE /\ pPos' = SwungPosition(k, S, start, pTarget, pRotation)
                /\ pTick' = NextIndex(k)
                /\ UNCHANGED <<pDone, pAtComplete>>

\* animate_to_position is called: a vanished note gets on_complete() and
\* nothing else (no position is written, no tick is scheduled); otherwise
\* start_x, start_y are read and step(0) runs inside the call.
MoveBegin ==
    /\ ~pMoveStarted
    /\ pMoveStarted' = TRUE
    /\ IF ~pExists
       THEN /\ pDone' = pDone + 1
            /\ pAtComplete' = Append(pAtComplete, pPos)
            /\ UNCHANGED <<pStart, pPos, pTick, pSteps>>
       ELSE /\ pStart' = pPos
            /\ PlaceStep(0, pPos)
    /\ UNCHANGED <<spiralVars, pSize, pExists, pDragOrigin, pDrags,
                   pDuration, pRotation,
                   pTarget, appVars, noteVars, heartVars, driverVars,
                   oneVars, layoutVars, easeVars,
                   countdownVars>>

\* One tick of the move.
PlaceMoveTick ==
    /\ pExists
    /\ pTick > 0
    /\ PlaceStep(pTick, pStart)
    /\ UNCHANGED <<spiralVars, pSize, pExists, pDragOrigin, pDrags,
                   pMoveStarted,
                   pDuration, pRotation, pTarget, pStart, appVars, noteVars,
                   heartVars, driverVars, oneVars, layoutVars, easeVars,
                   countdownVars>>

\* The user closes the note: destroy() deletes its pending tick.
PlaceDestroy ==
    /\ pExists
    /\ pExists' = FALSE
    /\ pTick' = PendingAfterDestroy(pTick)
    /\ pSpiralTick' = PendingAfterDestroy(pSpiralTick)
    /\ UNCHANGED <<pSpiralStarted, pSpiralDuration, pCenter, pSpiralStart,
                   pSpiralSteps, pSpiralDone, pSize, pPos, pDragOrigin, pDrags, pMoveStarted, pDuration,
                   pRotation, pTarget, pStart, pSteps, pDone, pAtComplete,
                   appVars, noteVars, heartVars, driverVars, oneVars,
                   layoutVars, easeVars,
                   countdownVars>>

\* math.sin and math.cos of total_rotations * 2 * pi * eased_progress to ten
\* decimal places, at the angles of the spirals followed: 2.5 turns times the
\* eased progress 2/9, 7/9 and 1 of a three-step spiral, and 1 of a one-step
\* spiral.  SpiralSin and SpiralCos hold the first five places in
\* hundred-thousandths, SpiralSinLow and SpiralCosLow the next five in
\* hundred-thousandths of a hundred-thousandth (TLC's integers are 32 bits
\* wide, so the ten places do not fit one number).
HundredThousandth == 100000
SpiralTurns == {180, 200, 340}
SpiralSin == [d \in SpiralTurns |->
    CASE d = 180 -> 0 [] d = 200 -> -34202 [] d = 340 -> -34202]
SpiralCos == [d \in SpiralTurns |->
    CASE d = 180 -> -100000 [] d = 200 -> -93969 [] d = 340 -> 93969]
SpiralSinLow == [d \in SpiralTurns |->
    CASE d = 180 -> 0 [] d = 200 -> -1433 [] d = 340 -> -1433]
SpiralCosLow == [d \in SpiralTurns |->
    CASE d = 180 -> 0 [] d = 200 -> -26208 [] d = 340 -> 26208]

\* total_rotations * 2 * pi * eased_progress in degrees, modulo a full
\* turn: 2.5 * 360 = 900 degrees times the eased progress
SpiralTurn(k, steps) ==
    LET e == EaseInOutQuad(k + 1, steps)
    IN  ((900 * e[1]) \div e[2]) % 360

\* The position animate_spiral's step(index) writes, truncated by int():
\* center + current_radius * (cos, sin)(current_angle), with current_radius
\* = start_radius * (1 - eased_progress) and current_angle = start_angle +
\* the turn.  start_radius * (cos, sin)(start_angle) is start - center, so
\* the point is center + (1 - eased_progress) * (start - center) turned.
\* int() truncates towards zero: the low places are rounded down under a
\* positive coordinate and up under a negative one before the division.
SpiralPosition(k, steps, start, center) ==
    LET e == EaseInOutQuad(k + 1, steps)
        a == SpiralTurn(k, steps)
        dx == start[1] - center[1]
        dy == start[2] - center[2]
        at(c, d, low) ==
            LET whole == center[c] * e[2] * HundredThousandth
                           + (e[2] - e[1]) * d
                part == (e[2] - e[1]) * low
                down == IF part >= 0 THEN part \div HundredThousandth
                        ELSE -(((-part) + HundredThousandth - 1)
                                 \div HundredThousandth)
                up == IF part >= 0
                      THEN (part + HundredThousandth - 1) \div HundredThousandth
                      ELSE -((-part) \div HundredThousandth)
            IN  IF whole + down >= 0
                THEN PyInt(<<whole + down, e[2] * HundredThousandth>>)
                ELSE PyInt(<<whole + up, e[2] * HundredThousandth>>)
    IN  <<at(1, dx * SpiralCos[a] - dy * SpiralSin[a],
                dx * SpiralCosLow[a] - dy * SpiralSinLow[a]),
          at(2, dx * SpiralSin[a] + dy * SpiralCos[a],
                dx * SpiralSinLow[a] + dy * SpiralCosLow[a])>>

\* animate_spiral's step(index) on the existing note, from start: the
\* position write, and at progress >= 1.0 on_complete() and self.destroy(),
\* which deletes the note's pending ticks; otherwise the next tick.
SpiralStep(k, start) ==
    LET S == Steps(pSpiralDuration)
        last == ProgressDone(k, S)
    IN  /\ pSpiralSteps' = pSpiralSteps + 1
        /\ pPos' = SpiralPosition(k, S, start, pCenter)
        /\ pSpiralDone' = IF last THEN pSpiralDone + 1 ELSE pSpiralDone
        /\ IF SpiralSelfDestroys(last)
           THEN /\ pExists' = FALSE
                /\ pSpiralTick' = 0
                /\ pTick' = PendingAfterDestroy(pTick)
           ELSE /\ pSpiralTick' = IF last THEN 0 ELSE NextIndex(k)
                /\ UNCHANGED <<pExists, pTick>>

\* animate_spiral is called: a vanished note gets on_complete() and nothing
\* else; otherwise start_x, start_y are read and step(0) runs inside the
\* call.
SpiralBegin ==
    /\ ~pSpiralStarted
    /\ pSpiralStarted' = TRUE
    /\ IF ~pExists
       THEN /\ pSpiralDone' = pSpiralDone + 1
            /\ UNCHANGED <<pSpiralStart, pSpiralSteps, pSpiralTick, pPos,
                           pExists, pTick>>
       ELSE /\ pSpiralStart' = pPos
            /\ SpiralStep(0, pPos)
    /\ UNCHANGED <<pSpiralDuration, pCenter, pSize, pDragOrigin, pDrags,
                   pMoveStarted, pDuration, pRotation, pTarget, pStart,
                   pSteps, pDone, pAtComplete, appVars, noteVars, heartVars,
                   driverVars, oneVars, layoutVars, easeVars, countdownVars>>

\* One tick of the spiral.
PlaceSpiralTick ==
    /\ pExists
    /\ pSpiralTick > 0
    /\ SpiralStep(pSpiralTick, pSpiralStart)
    /\ UNCHANGED <<pSpiralStarted, pSpiralDuration, pCenter, pSpiralStart,
                   pSize, pDragOrigin, pDrags, pMoveStarted, pDuration,
                   pRotation, pTarget, pStart, pSteps, pDone, pAtComplete,
                   appVars, noteVars, heartVars, driverVars, oneVars,
                   layoutVars, easeVars, countdownVars>>

PlaceNext ==
    \/ \E e \in Pointers : StartMove(e)
    \/ \E e \in Pointers : DragMove(e)
    \/ StopMove
    \/ MoveBegin
    \/ PlaceMoveTick
    \/ SpiralBegin
    \/ PlaceSpiralTick
    \/ PlaceDestroy

PlaceSpec == PlaceInit /\ [][PlaceNext]_vars


\* -------------------------------------------------------- ease_in_out_quad

\* The largest step count whose progress values are handed to the function.
MaxEaseSteps == 25

\* The progress values t = k / steps, 0 <= k <= steps.
EaseInit ==
    /\ AppIdle
    /\ DriverIdle
    /\ OneIdle
    /\ LayoutIdle
    /\ PlaceIdle
    /\ CountdownIdle
    /\ \E S \in 1..MaxEaseSteps : \E k \in 0..S : easeArgs = <<k, S>>
    /\ easeCalled = FALSE
    /\ easeResult = <<0, 1>>

\* ease_in_out_quad(t) is called.
ApplyEase ==
    /\ ~easeCalled
    /\ easeCalled' = TRUE
    /\ easeResult' = EaseInOutQuad(easeArgs[1], easeArgs[2])
    /\ UNCHANGED <<easeArgs, appVars, noteVars, heartVars, driverVars,
                   oneVars, layoutVars, placeVars, countdownVars>>

EaseNext == ApplyEase

EaseSpec == EaseInit /\ [][EaseNext]_vars


\* ------------------------------------ the merge countdown on its own

\* _start_merge_animation's countdown with its completion callback called
\* from outside: remaining_animations starts at len(active_notes), and
\* on_anim_complete may be called for any active note, up to MaxCalls times
\* for the same note.
MaxCalls == 2

\* remaining_animations = len(active_notes), for one or more active notes
CountdownInit ==
    /\ AppIdle
    /\ DriverIdle
    /\ OneIdle
    /\ LayoutIdle
    /\ PlaceIdle
    /\ EaseIdle
    /\ cdActive \in 1..MaxActive
    /\ cdRemaining = cdActive
    /\ cdCalls = [n \in 1..MaxActive |-> 0]
    /\ cdShowPending = 0

\* on_anim_complete() is called as the completion callback of note n's
\* animation.
CompletionCall(n) ==
    /\ n <= cdActive
    /\ cdCalls[n] < MaxCalls
    /\ cdCalls' = [cdCalls EXCEPT ![n] = @ + 1]
    /\ LET r == OnAnimComplete(cdRemaining, cdShowPending)
       IN  /\ cdRemaining' = r.rem
           /\ cdShowPending' = r.pend
    /\ UNCHANGED <<cdActive, appVars, noteVars, heartVars, driverVars,
                   oneVars, layoutVars, placeVars, easeVars>>

CountdownNext == \E n \in 1..MaxActive : CompletionCall(n)

CountdownSpec == CountdownInit /\ [][CountdownNext]_vars


\* ================================================================= claims

Alive == {n \in Notes : exists[n]}
Completed(S) == {n \in S : moveDone[n] = 1}

\* C1: the final message is presented at most once in any run: at most one
\* heart window is ever created, the one-shot flag is set exactly when it
\* has been, its presentation is never pending twice or pending again after
\* it was shown, and shutdown is only signalled after it was presented once.
C1_FinalMessageOnce ==
    /\ heartWindows <= 1
    /\ heart_shown <=> heartWindows = 1
    /\ showHeartPending + heartWindows <= 1
    /\ quitCount > 0 => heartWindows = 1

\* C1 witness: the message is up after two notes' move animations completed.
C1_Witness ==
    /\ heartWindows = 1
    /\ \E a, b \in Notes : a # b /\ moveDone[a] = 1 /\ moveDone[b] = 1

\* C2: merge scheduling is idempotent: _start_merge_animation is scheduled
\* at most once and runs at most once, however often _schedule_merge is
\* invoked; the flag is set exactly when it has been scheduled.
C2_MergeScheduledOnce ==
    /\ mergeSchedules <= 1
    /\ mergeRuns <= 1
    /\ startMergePending + mergeRuns = mergeSchedules
    /\ merge_scheduled <=> mergeSchedules = 1

\* C2 witness: every note was created and then closed before the merge was
\* scheduled, so the last close invoked _schedule_merge; the post-spawn timer
\* invoked it again; _start_merge_animation ran once.
C2_Witness ==
    /\ total >= 1
    /\ index = total
    /\ postSpawnPending = 0
    /\ \A n \in 1..total : closedIn[n] = "before_merge"
    /\ mergeRuns = 1

\* C3 (as claimed): a driver whose target stays alive performs exactly
\* max(1, d div 20) steps, completes exactly once, at the last of them and
\* not before, and has no tick pending after completing.
C3_ExactSteps ==
    (dStarted /\ dWrites >= 1 /\ dKilledAt = -1) =>
        /\ dWrites <= Steps(dDuration)
        /\ dDone <= 1
        /\ dDone = 1 <=> dWrites = Steps(dDuration)
        /\ dDone = 1 => dTick = 0

\* C4 (as claimed): once the target of an in-flight animation has been
\* destroyed, the driver writes nothing more, and its next tick is still to
\* come or its completion callback has been invoked, exactly once.
C4_DestroyedTargetCompletes ==
    dKilledAt >= 0 =>
        /\ dWrites = dKilledAt
        /\ dDone <= 1
        /\ dTick > 0 \/ dDone = 1

\* C5: with a snapshot of n >= 1 notes the countdown is n less the number of
\* completed animations, each snapshot note completing at most once and no
\* other note at all; it is never negative; and the final message is
\* scheduled or shown only when it is zero, every snapshot animation having
\* completed.
C5_Countdown ==
    (mergeRuns >= 1 /\ snapshot # <<>>) =>
        /\ remaining = Len(snapshot) - Cardinality(Completed(SeqToSet(snapshot)))
        /\ \A n \in Notes : moveDone[n] <= 1
        /\ \A n \in Notes \ SeqToSet(snapshot) : moveDone[n] = 0
        /\ remaining >= 0
        /\ (showHeartPending > 0 \/ heart_shown) =>
               /\ remaining = 0
               /\ Completed(SeqToSet(snapshot)) = SeqToSet(snapshot)

\* C5 witness: the message is shown after a snapshot of two or more notes
\* counted down to zero.
C5_Witness ==
    /\ Len(snapshot) >= 2
    /\ remaining = 0
    /\ heart_shown

\* C6 (as claimed): every run ends in shutdown, signalled once: whenever no
\* timer callback is left to fire, root.quit() has been called.
C6_EventuallyQuits ==
    /\ quitCount <= 1
    /\ ~ENABLED TimerCallback => quitCount = 1

\* C7 (as claimed): the merge becomes scheduled only when spawning has been
\* cancelled or has finished.
C7_NoPrematureMerge ==
    [][(~merge_scheduled /\ merge_scheduled')
           => (creation_cancelled \/ index >= total)]_vars

\* C7 (amended): a close event that leaves no existing note in the list
\* schedules the merge whenever it was not scheduled yet, whether or not all
\* notes have been created, and cancels creation in the same step.
C7_CloseAllSchedulesMerge ==
    [][((\E n \in Notes : exists[n] /\ ~exists'[n])
            /\ ~merge_scheduled
            /\ \A i \in 1..Len(sticky_notes') : ~exists'[sticky_notes'[i]])
           => /\ merge_scheduled'
              /\ creation_cancelled'
              /\ startMergePending' = startMergePending + 1]_vars

\* C7 witness: the merge is scheduled while fewer notes than requested have
\* been created, every created note having been closed.
C7_Witness ==
    /\ merge_scheduled
    /\ index > 0
    /\ index < total
    /\ \A n \in 1..index : closedIn[n] = "before_merge"

\* C8: once the merge is scheduled no note is created: the index, the set of
\* existing notes and the list never grow again.
C8_NoCreationAfterMerge ==
    [][merge_scheduled =>
           /\ index' = index
           /\ \A n \in Notes : exists'[n] => exists[n]
           /\ Len(sticky_notes') <= Len(sticky_notes)]_vars

\* C8 witness: the merge was scheduled with notes still to create, and the
\* pending _create_single_note callback has fired without creating one.
C8_Witness ==
    /\ merge_scheduled
    /\ index > 0
    /\ index < total
    /\ createPending = "none"

\* C9: with no note requested nothing is ever created or scheduled for
\* creation, the merge is scheduled by the constructor, and
\* _start_merge_animation shows the final message on an empty snapshot
\* without computing heart positions or starting a move.
C9_ZeroCount ==
    total = 0 =>
        /\ index = 0
        /\ createPending = "none"
        /\ postSpawnPending = 0
        /\ merge_scheduled
        /\ creation_cancelled
        /\ mergeSchedules = 1
        /\ snapshot = <<>>
        /\ heartPositions = 0
        /\ showHeartPending = 0
        /\ \A n \in Notes :
               ~exists[n] /\ fadeWrites[n] = 0 /\ moveWrites[n] = 0
        /\ mergeRuns = 1 => (heart_shown /\ heartWindows = 1)

\* C9 witness: no note requested, the merge has run and the message is up.
C9_Witness ==
    /\ total = 0
    /\ mergeRuns = 1
    /\ heartWindows = 1

\* C10: _start_merge_animation animates exactly the notes that exist when it
\* runs, and counts exactly them; with none it shows the final message at
\* once, computing no heart position and starting no move.
C10_SnapshotIsAlive ==
    [][mergeRuns' = mergeRuns + 1 =>
           IF Alive = {}
           THEN /\ heart_shown'
                /\ heartWindows' = heartWindows + 1
                /\ heartPositions' = heartPositions
                /\ moveWrites' = moveWrites
                /\ moveTick' = moveTick
                /\ showHeartPending' = showHeartPending
           ELSE /\ SeqToSet(snapshot') = Alive
                /\ Len(snapshot') = Cardinality(Alive)
                /\ remaining' + Cardinality({n \in Alive : moveDone'[n] = 1})
                       = Cardinality(Alive)
                /\ \A n \in Notes :
                       /\ moveWrites'[n] = IF n \in Alive THEN 1 ELSE 0
                       /\ n \notin Alive => moveTick'[n] = 0
                       /\ n \in Alive => (moveTick'[n] > 0 \/ moveDone'[n] = 1)
                /\ ~heart_shown']_vars

\* C10 witness: the merge has run; one note, closed between the scheduling
\* and the run, was given no animation, and another note was animated.
C10_Witness ==
    /\ mergeRuns = 1
    /\ \E a, b \in Notes :
           /\ closedIn[a] = "scheduled"
           /\ moveWrites[a] = 0
           /\ moveWrites[b] >= 1

\* C11 (as claimed): a snapshot note that the user closes during the
\* convergence still completes its move: its completing tick is still to come
\* or on_anim_complete has been called for it, once; so whenever the merge
\* has run and no timer callback is left to fire, the final message has been
\* presented.
C11_ClosedNoteStillCompletes ==
    /\ \A n \in SeqToSet(snapshot) :
           closedIn[n] = "converging" => (moveTick[n] > 0 \/ moveDone[n] = 1)
    /\ (mergeRuns = 1 /\ ~ENABLED TimerCallback) => heart_shown

\* C12: nothing is applied to a destroyed note, its fade-in's completion
\* included: once a note is closed no alpha is written to it, no step of its
\* fade-in or move runs, its fade-in completion (_lift_with_shadow) is not
\* called again, and _lift_with_shadow has never run on a destroyed note.
C12_NoActionOnDestroyed ==
    [][\A n \in Notes :
           closedIn[n] # "none" =>
               /\ alpha'[n] = alpha[n]
               /\ fadeWrites'[n] = fadeWrites[n]
               /\ moveWrites'[n] = moveWrites[n]
               /\ fadeDone'[n] = fadeDone[n]
               /\ liftDead'[n] = 0]_vars

\* C12 witness: a note was closed before its fade-in finished, with a fade
\* tick pending, and the controller went on to run the merge afterwards.
C12_Witness ==
    \E n \in Notes :
        /\ closedIn[n] # "none"
        /\ fadeWrites[n] >= 1
        /\ fadeWrites[n] < NoteFadeSteps
        /\ fadeDone[n] = 0
        /\ mergeRuns = 1

\* C13 (as claimed): a note's opacity never decreases before its first
\* spiral-out write and never increases after it, also when animate_spiral
\* is started while fade_in is still in flight.
C13_OpacityMonotone ==
    [][IF oneSpiralWrites = 0
       THEN oneSpiralWrites' = 0 => AlphaLeq(oneAlpha, oneAlpha')
       ELSE AlphaLeq(oneAlpha', oneAlpha)]_vars

\* C14 (as claimed): an existing note's position is always within padding of
\* the screen's edges on both axes, whatever spawn, drag and move steps
\* produced it.
C14_PositionInBounds ==
    pExists =>
        /\ NOTE_GLOW_PADDING <= pPos[1]
        /\ pPos[1] <= pSize[3] - pSize[1] - NOTE_GLOW_PADDING
        /\ NOTE_GLOW_PADDING <= pPos[2]
        /\ pPos[2] <= pSize[4] - pSize[2] - NOTE_GLOW_PADDING

\* The range [padding, screen - note - padding] of an axis
InRange(v, screen, note) ==
    NOTE_GLOW_PADDING <= v /\ v <= screen - note - NOTE_GLOW_PADDING

\* A note and its padding fit on the screen on an axis
AxisFits(screen, note) == screen - note >= 2 * NOTE_GLOW_PADDING

\* What the clamp leaves of a coordinate: within the range of an axis the
\* note fits on, the padding on an axis it does not fit on
Clamped(v, screen, note) ==
    IF AxisFits(screen, note)
    THEN InRange(v, screen, note)
    ELSE v = NOTE_GLOW_PADDING

\* What C15 states of the returned list apart from the range: nothing for
\* count <= 0; else count positions, one from each loop index i in
\* 0..count-1, whose cells (i div cols, i mod cols) are pairwise distinct.
OnePerCell ==
    IF layoutArgs.count <= 0
    THEN layoutResult = <<>>
    ELSE LET cols == Cols(layoutArgs.screen_width, layoutArgs.note_width)
         IN  /\ Len(layoutResult) = layoutArgs.count
             /\ Len(layoutCell) = layoutArgs.count
             /\ SeqToSet(layoutCell) = 0..(layoutArgs.count - 1)
             /\ \A j, k \in 1..Len(layoutCell) :
                    j # k => <<layoutCell[j] \div cols, layoutCell[j] % cols>>
                               # <<layoutCell[k] \div cols,
                                   layoutCell[k] % cols>>
             /\ \A k \in 1..Len(layoutResult) :
                    \E rx, ry \in JitterOutcomes :
                        layoutResult[k] =
                            CellPosition(layoutCell[k], layoutArgs, rx, ry)

\* C15 (as claimed): for every count and jitter outcome generate_positions
\* returns one position per cell, count in all, each within [padding,
\* screen - note - padding] on both axes; the empty list for count <= 0.
C15_LayoutInRange ==
    layoutCalled =>
        /\ OnePerCell
        /\ \A k \in 1..Len(layoutResult) :
               /\ InRange(layoutResult[k][1], layoutArgs.screen_width,
                          layoutArgs.note_width)
               /\ InRange(layoutResult[k][2], layoutArgs.screen_height,
                          layoutArgs.note_height)

\* C15 (amended): the same, the range holding on each axis by itself when
\* the note and its padding fit on the screen on that axis, the coordinate
\* being the padding on an axis they do not fit on; the positions are
\* returned in shuffled order.
C15_LayoutInRangeWhenFits ==
    layoutCalled =>
        /\ OnePerCell
        /\ \A k \in 1..Len(layoutResult) :
               /\ Clamped(layoutResult[k][1], layoutArgs.screen_width,
                          layoutArgs.note_width)
               /\ Clamped(layoutResult[k][2], layoutArgs.screen_height,
                          layoutArgs.note_height)

\* C15 witness: a layout of three notes on a screen too narrow for a note and
\* its padding but high enough, returned out of loop order: every x is the
\* padding, and a position is held at each limit of the range of y.
C15_Witness ==
    /\ layoutCalled
    /\ layoutArgs.count = 3
    /\ ~AxisFits(layoutArgs.screen_width, layoutArgs.note_width)
    /\ AxisFits(layoutArgs.screen_height, layoutArgs.note_height)
    /\ layoutCell[1] # 0
    /\ \A k \in 1..3 : layoutResult[k][1] = NOTE_GLOW_PADDING
    /\ \E j, k \in 1..3 :
           /\ layoutResult[j][2] = NOTE_GLOW_PADDING
           /\ layoutResult[k][2] = layoutArgs.screen_height
                  - layoutArgs.note_height - NOTE_GLOW_PADDING

\* Two note rectangles at positions a and b share no interior point
Apart(a, b, w, h) ==
    \/ a[1] + w <= b[1]
    \/ b[1] + w <= a[1]
    \/ a[2] + h <= b[2]
    \/ b[2] + h <= a[2]

\* C16 (as claimed): no two note rectangles of a layout returned by
\* generate_positions intersect, for every count, size and jitter outcome.
C16_NoOverlap ==
    layoutCalled =>
        \A j, k \in 1..Len(layoutResult) :
            j # k => Apart(layoutResult[j], layoutResult[k],
                           layoutArgs.note_width, layoutArgs.note_height)

\* Equality of two fractions <<num, den>>, or of the fractions of two alphas
SameFraction(a, b) == a[1] * b[2] = b[1] * a[2]

\* C17: for every progress value t = k / steps, 0 <= k <= steps,
\* ease_in_out_quad(t) is within [0, 1], is 0 at t = 0 and 1 at t = 1, and
\* at t = 1/2 it is 1/2, which both of its branches give.
C17_EaseRange ==
    easeCalled =>
        LET k == easeArgs[1]
            S == easeArgs[2]
        IN  /\ easeResult[2] > 0
            /\ 0 <= easeResult[1]
            /\ easeResult[1] <= easeResult[2]
            /\ k = 0 => easeResult[1] = 0
            /\ k = S => easeResult[1] = easeResult[2]
            /\ 2 * k = S =>
                   /\ SameFraction(easeResult, <<1, 2>>)
                   /\ SameFraction(EaseLower(k, S), easeResult)
                   /\ SameFraction(EaseUpper(k, S), easeResult)

\* C17 witness: the function has been applied at t = 12/24 = 1/2, where the
\* upper branch is the one taken.
C17_Witness ==
    /\ easeCalled
    /\ easeArgs = <<12, 24>>
    /\ SameFraction(easeResult, <<1, 2>>)

\* C18: whenever the completion callback of a move runs on an existing note,
\* the note is exactly at (target_x, target_y): the callback runs once, in
\* the last step, after the snap, with no swing offset left.  The only other
\* call of the callback is the one animate_to_position makes at once on a
\* note that has already vanished, before any step: no step of the move runs
\* then and no position is written.
C18_SnapBeforeComplete ==
    /\ pDone <= 1
    /\ Len(pAtComplete) = pDone
    /\ pDone = 1 =>
          \/ /\ pSteps = 0
             /\ ~pExists
             /\ pTick = 0
          \/ /\ pSteps = Steps(pDuration)
             /\ pTick = 0
             /\ pAtComplete = <<pTarget>>
    /\ (pMoveStarted /\ pExists /\ pDone = 0) => pTick > 0

\* C18 witness: a four-step move that started from a position the user had
\* dragged the note to, left of the screen's padding, has completed.
C18_Witness ==
    /\ pDone = 1
    /\ pSteps = 4
    /\ pStart[1] < NOTE_GLOW_PADDING
    /\ pStart # pTarget
    /\ pTarget[1] # pTarget[2]
    /\ pAtComplete = <<pTarget>>

\* C19: the steps of every animation run in the order of their indices, each
\* index once and none passed over, whatever other callbacks run in between:
\* the tick pending for an animation is the one whose index is the number of
\* steps the animation has run, every step is one more step, and the tick it
\* leaves pending, if any, is the next one.  (The heart's fade-out ends with
\* a step that destroys the window and writes nothing.)
C19_TicksInOrder ==
    [][/\ \A n \in Notes :
              /\ fadeTick[n] > 0 => fadeTick[n] = fadeWrites[n]
              /\ moveTick[n] > 0 => moveTick[n] = moveWrites[n]
              /\ fadeWrites'[n] # fadeWrites[n] =>
                     /\ fadeWrites'[n] = fadeWrites[n] + 1
                     /\ fadeTick'[n] \in {0, fadeWrites'[n]}
              /\ moveWrites'[n] # moveWrites[n] =>
                     /\ moveWrites'[n] = moveWrites[n] + 1
                     /\ moveTick'[n] \in {0, moveWrites'[n]}
       /\ heartFadeTick > 0 => heartFadeTick = heartFadeWrites
       /\ heartOutTick > 0 => heartOutTick = heartOutWrites
       /\ heartFadeWrites' # heartFadeWrites =>
              /\ heartFadeWrites' = heartFadeWrites + 1
              /\ heartFadeTick' \in {0, heartFadeWrites'}
       /\ heartOutWrites' # heartOutWrites =>
              /\ heartOutWrites' = heartOutWrites + 1
              /\ heartOutTick' = heartOutWrites']_vars

\* C19 witness: two notes' fade-ins have run interleaved, the second note's
\* fade being ahead of the first's, and both moves have run to their end.
C19_Witness ==
    /\ \A n \in Notes : moveWrites[n] = MoveSteps /\ moveDone[n] = 1
    /\ \A n \in Notes : fadeWrites[n] >= 2
    /\ fadeWrites[1] < fadeWrites[2]

\* The heart window is in at most one of its phases (fading in, held, fading
\* out), and a phase is entered only when the one before it is over.
HeartPhases ==
    /\ heartFadeDone <= 1
    /\ heartHoldPending <= 1
    /\ Cardinality({ph \in {"in", "hold", "out"} :
           \/ ph = "in" /\ heartFadeTick > 0
           \/ ph = "hold" /\ heartHoldPending > 0
           \/ ph = "out" /\ heartOutTick > 0}) <= 1
    /\ heartFadeDone = 1 =>
           /\ heartFadeTick = 0
           /\ heartFadeWrites = HeartFadeSteps
    /\ (heartHoldPending > 0 \/ heartOutWrites > 0 \/ heartOutTick > 0) =>
           heartFadeDone = 1
    /\ heartHoldPending > 0 =>
           (heartOutWrites = 0 /\ heartAlpha = <<1, 1, 0>> /\ heartExists)
    /\ heartOutWrites <= FADE_OUT_STEPS
    /\ heartOutTick > 0 => heartExists
    /\ quitCount <= 1
    /\ quitCount = 1 =>
           /\ heartOutWrites = FADE_OUT_STEPS
           /\ ~heartExists
           /\ heartOutTick = 0

\* C20: the final message fades in to opacity 1, is held, then fades out in
\* exactly 10 writes 1, 9/10, ..., 1/10 (each the double the code computes
\* for it, at most two ulps off), each below the one before, and the step
\* after the tenth write destroys the window and signals shutdown; the
\* phases do not overlap and the fade-out starts only after the fade-in has
\* completed.
C20_HeartPhasesInOrder ==
    [][/\ HeartPhases'
       /\ heartFadeDone' # heartFadeDone => heartAlpha' = <<1, 1, 0>>
       /\ heartOutWrites' # heartOutWrites =>
              /\ heartOutWrites' = heartOutWrites + 1
              /\ SameFraction(heartAlpha', <<FADE_OUT_STEPS - heartOutWrites,
                                             FADE_OUT_STEPS>>)
              /\ heartOutWrites > 0 =>
                     (AlphaLeq(heartAlpha', heartAlpha)
                          /\ ~AlphaLeq(heartAlpha, heartAlpha'))
              /\ heartOutWrites = 0 =>
                     (AlphaLeq(heartAlpha', heartAlpha)
                          /\ AlphaLeq(heartAlpha, heartAlpha'))
       /\ quitCount' # quitCount =>
              /\ heartOutTick = FADE_OUT_STEPS
              /\ heartOutWrites = FADE_OUT_STEPS
              /\ SameFraction(heartAlpha, <<1, FADE_OUT_STEPS>>)
              /\ heartExists /\ ~heartExists']_vars

\* C20 witness: the message has faded in, been held, faded out in ten writes
\* and been destroyed, and shutdown has been signalled.
C20_Witness ==
    /\ quitCount = 1
    /\ heartFadeWrites = HeartFadeSteps
    /\ heartFadeDone = 1
    /\ heartOutWrites = FADE_OUT_STEPS
    /\ ~heartExists

\* C21: a spiral-out on a live note ends itself.  The step that calls the
\* completion callback on the live note is the animation's last, calls it
\* for the first and only time, and leaves the note destroyed with its close
\* callback called once and no tick of the animation pending; once the
\* animation has completed the note stays destroyed, the close callback is
\* not called again and no step of the animation runs.
C21_SpiralSelfTerminating ==
    [][/\ (oneExists /\ oneSpiralDone' # oneSpiralDone) =>
              /\ oneSpiralDone = 0
              /\ oneSpiralDone' = 1
              /\ oneSpiralWrites' = Steps(oneSpiralDuration)
              /\ oneSpiralWrites' = oneSpiralWrites + 1
              /\ ~oneExists'
              /\ oneCloseCalls' = 1
              /\ ~oneOnClose'
              /\ oneDestroys' = 1
              /\ oneSpiralTick' = 0
       /\ oneSpiralDone >= 1 =>
              /\ ~oneExists /\ ~oneExists'
              /\ oneSpiralTick = 0 /\ oneSpiralTick' = 0
              /\ oneSpiralDone' = oneSpiralDone
              /\ oneSpiralWrites' = oneSpiralWrites
              /\ oneCloseCalls = 1 /\ oneCloseCalls' = 1]_vars

\* C21 witness: a spiral-out of several steps has run to its end on the
\* live note, while the note's fade-in was still in flight: the completion
\* callback was called once, the note is destroyed and its close callback
\* was called.
C21_Witness ==
    /\ oneSpiralDone = 1
    /\ oneSpiralWrites = Steps(oneSpiralDuration)
    /\ oneSpiralWrites > 1
    /\ oneFadeWrites < Steps(FADE_IN_DURATION_MS)
    /\ ~oneExists
    /\ oneCloseCalls = 1
    /\ oneSpiralTick = 0

\* C22: the countdown is decremented at most once for each note, however
\* many times the completion callback is called for it, so the final message
\* is not scheduled before the callback has been called for every active
\* note.
C22_CountdownGuarded ==
    /\ cdActive - cdRemaining
           <= Cardinality({n \in 1..cdActive : cdCalls[n] >= 1})
    /\ cdShowPending > 0 => \A n \in 1..cdActive : cdCalls[n] >= 1

\* C23: the note's close callback is called at most once, however many
\* times destroy() is called on the note and whether by the user or by the
\* spiral's last step: it has been called exactly when destroy() has been
\* called at all, and _on_close is empty from then on.
C23_CloseNotifiedOnce ==
    /\ oneCloseCalls <= 1
    /\ oneCloseCalls = 1 <=> oneDestroys >= 1
    /\ oneCloseCalls = 1 <=> ~oneOnClose
    /\ oneExists => oneDestroys = 0

\* C23 witness: the spiral's last step destroyed the note, destroy() was
\* called on it twice more, and the close callback has been called once.
C23_Witness ==
    /\ oneSpiralDone = 1
    /\ oneSpiralWrites = Steps(oneSpiralDuration)
    /\ oneDestroys = 3
    /\ oneCloseCalls = 1

\* C24: after every callback, sticky_notes holds exactly the notes created
\* and not closed since, each once and in the order of their creation: no
\* more entries than notes created, no more notes created than texts, and
\* no closed note among them.
C24_StickyNotesList ==
    /\ index <= total
    /\ Len(sticky_notes) <= index
    /\ \A i, j \in 1..Len(sticky_notes) :
           i < j => sticky_notes[i] < sticky_notes[j]
    /\ SeqToSet(sticky_notes) = {n \in Notes : n <= index /\ exists[n]}
    /\ \A n \in Notes : exists[n] => n <= index

\* C24 witness: every note has been created, the first has been closed and
\* the list holds the others.
C24_Witness ==
    /\ total = MaxNotes
    /\ index = total
    /\ ~exists[1]
    /\ closedIn[1] # "none"
    /\ Len(sticky_notes) = total - 1
    /\ \A n \in 2..total : exists[n]

====
